---- MODULE Spec2Model ----
(***************************************************************************)
(* Change-management automation for GitHub pull requests                   *)
(* (.github/change_management.py).                                         *)
(*                                                                         *)
(* Text representation.  A Python str is modelled as the non-empty         *)
(* sequence of its "\n"-separated pieces (what str.split("\n") returns);   *)
(* a piece is a sequence of tokens (strings standing for the substrings    *)
(* the code looks for: the label, "href", the double quote, "/", ...).     *)
(*     ""        is  << <<>> >>                                            *)
(*     "x"       is  << <<"x">> >>                                         *)
(*     "x\n"     is  << <<"x">>, <<>> >>                                   *)
(*     "\n\nx"   is  << <<>>, <<>>, <<"x">> >>                             *)
(* The JSON null body is NullBody, the empty sequence, which is no str.    *)
(***************************************************************************)
EXTENDS Integers, Sequences, FiniteSets, TLC

\* ------------------------------------------------------------------ bounds
\* Event deliveries (runs of the script) on the one pull request.
MaxRuns == 4
\* Codec operations applied in a row to one text.
MaxCodecOps == 2
\* Pieces of an input text of the codec.
MaxPieces == 3

\* ------------------------------------------------------------------ tokens
Quote == "\""
Slash == "/"
Href == "href"
LabelTok == "<summary>Change Management</summary>"

EMPTY_LINE == << >>
DETAILS_LINE == << "<details>" >>
LABEL_LINE == << LabelTok >>
END_LINE == << "</details>" >>
TEXT_LINE == << "x" >>
\* the label text inside a longer line: found by `in`, never by `line ==`
LABEL_IN_TEXT_LINE == << "x", LabelTok >>
\* a line that mentions href but carries no quoted URL
HREF_NOQUOTE_LINE == << Href >>

EmptyStr == << EMPTY_LINE >>
NullBody == << >>

\* ------------------------------------------------------------ str helpers
\* s + t
Concat(s, t) ==
    SubSeq(s, 1, Len(s) - 1) \o << s[Len(s)] \o t[1] >> \o SubSeq(t, 2, Len(t))

\* s.splitlines(): the pieces, without the empty piece a final "\n" leaves
str_splitlines(s) ==
    IF s[Len(s)] = EMPTY_LINE THEN SubSeq(s, 1, Len(s) - 1) ELSE s

\* line.index(tok, from): the first position >= from holding tok; 0 stands for
\* the ValueError Python raises when there is none
str_index(line, tok, from) ==
    LET hits == { j \in from..Len(line) : line[j] = tok }
    IN  IF hits = {} THEN 0
        ELSE CHOOSE j \in hits : \A k \in hits : j <= k

\* url.split("/")[-1]: what follows the last "/"
LastPart(url) ==
    LET cuts == { j \in 1..Len(url) : url[j] = Slash }
        last == IF cuts = {} THEN 0
                ELSE CHOOSE j \in cuts : \A k \in cuts : k <= j
    IN  SubSeq(url, last + 1, Len(url))

\* "<summary>Change Management</summary>" in pr_body
LabelIn(pr_body) ==
    \E i \in 1..Len(pr_body) : \E j \in 1..Len(pr_body[i]) : pr_body[i][j] = LabelTok

\* --------------------------------------------------------------- the codec
AnchorLine(cm_task_url) ==
    << "<a ", Href, "=", Quote >> \o cm_task_url \o << Quote, ">Asana task</a>" >>

\* variant: one line break between the body and the block
add_cm_details_one_newline(pr_body, cm_task_url) ==
    Concat(pr_body,
           << EMPTY_LINE, DETAILS_LINE, LABEL_LINE,
              AnchorLine(cm_task_url), END_LINE, EMPTY_LINE >>)

\* the f-string: {pr_body} "\n" "\n" <details> "\n" label "\n" anchor "\n" </details> "\n"
add_cm_details_to_pr_body(pr_body, cm_task_url) ==
    Concat(pr_body,
           << EMPTY_LINE, EMPTY_LINE, DETAILS_LINE, LABEL_LINE,
              AnchorLine(cm_task_url), END_LINE, EMPTY_LINE >>)

RECURSIVE strip_loop(_, _, _, _, _)
strip_loop(lines, i, new_body, in_cm, test_in_cm) ==
    IF i > Len(lines) THEN new_body
    ELSE
      LET line == lines[i] IN
      IF ~test_in_cm /\ line = DETAILS_LINE
      THEN strip_loop(lines, i + 1, new_body, in_cm, TRUE)      \* continue
      ELSE
        LET hit  == test_in_cm /\ line = LABEL_LINE
            in1  == IF hit THEN TRUE ELSE in_cm
            \* test_in_cm is reset only when the label line is met
            t1   == IF hit THEN FALSE ELSE test_in_cm
            nb1  == IF test_in_cm /\ ~hit
                    THEN Concat(new_body, << EMPTY_LINE, DETAILS_LINE >>)
                    ELSE new_body
            nb2  == IF ~in1 THEN Concat(nb1, << EMPTY_LINE, line >>) ELSE nb1
            in2  == IF in1 /\ line = END_LINE THEN FALSE ELSE in1
        IN  strip_loop(lines, i + 1, nb2, in2, t1)

remove_cm_details_from_pr_body(pr_body) ==
    strip_loop(str_splitlines(pr_body), 1, EmptyStr, FALSE, FALSE)

NoneVal == [kind |-> "None"]
ValueError == [kind |-> "ValueError"]

\* variant: the URL taken from the opening quote on (no + 1)
parse_link_url_from_quote(line) ==
    LET href_index == str_index(line, Href, 1)
        quote_index == str_index(line, Quote, href_index)
        url_start_index == quote_index
        url_end_index == str_index(line, Quote, url_start_index + 1)
        url == SubSeq(line, url_start_index, url_end_index - 1)
    IN  IF href_index = 0 \/ quote_index = 0 \/ url_end_index = 0 THEN ValueError
        ELSE [kind |-> "ref", task_gid |-> LastPart(url), task_url |-> url]

\* the body of the `elif next_line:` branch (lines 132-138)
parse_link(line) ==
    LET href_index == str_index(line, Href, 1)
        quote_index == str_index(line, Quote, href_index)
        url_start_index == quote_index + 1
        url_end_index == str_index(line, Quote, url_start_index)
        url == SubSeq(line, url_start_index, url_end_index - 1)
    IN  IF href_index = 0 \/ quote_index = 0 \/ url_end_index = 0 THEN ValueError
        ELSE [kind |-> "ref", task_gid |-> LastPart(url), task_url |-> url]

RECURSIVE parse_loop(_, _, _)
parse_loop(lines, i, next_line) ==
    IF i > Len(lines) THEN NoneVal
    ELSE IF lines[i] = LABEL_LINE THEN parse_loop(lines, i + 1, TRUE)
    ELSE IF next_line THEN parse_link(lines[i])
    ELSE parse_loop(lines, i + 1, next_line)

parse_cm_info_from_pr_body(pr_body) ==
    parse_loop(str_splitlines(pr_body), 1, FALSE)

\* ------------------------------------------------------- the remote services
\* Asana: the gid and the permalink of the n-th task it creates
Gid(n) == << ToString(n) >>
PermalinkUrl(n) ==
    << "https:", Slash, Slash, "app.asana.com", Slash, "0", Slash, ToString(n) >>

VARIABLES
    body,          \* GitHub: the pull request's body (NullBody or a str)
    tasks,         \* Asana: task number -> "none" | "open" | "completed" | "deleted"
    ntasks,        \* Asana: tasks created so far
    pc,            \* the script's position; "idle" | "done" | "failed" | "crashed_*" between runs
    action,        \* args.github_event_action
    merged,        \* pr_data["merged"]
    pr_body,       \* pr_data["body"] after the null normalisation
    cm_task_info,  \* the script's cm_task_info
    calls,         \* the remote calls this run has issued, in order
    created,       \* number of the task this run created, 0 if none
    runs,          \* runs started
    init_body,     \* the body before the first run
    any_failed,    \* some remote call has answered with a status > 299
    c_text, c_prev, c_url, c_ref, c_ops   \* the codec's harness

run_vars == << body, tasks, ntasks, pc, action, merged, pr_body, cm_task_info,
               calls, created, runs, init_body, any_failed >>
codec_vars == << c_text, c_prev, c_url, c_ref, c_ops >>
vars == << body, tasks, ntasks, pc, action, merged, pr_body, cm_task_info,
           calls, created, runs, init_body, any_failed,
           c_text, c_prev, c_url, c_ref, c_ops >>

Actions == { "opened", "edited", "closed", "synchronize" }

\* the number of the task a gid names, 0 when Asana knows no such task
TaskOf(gid) ==
    IF \E n \in 1..ntasks : Gid(n) = gid
    THEN CHOOSE n \in 1..ntasks : Gid(n) = gid
    ELSE 0

\* Asana answers 404 for a task it does not know or that was deleted
Addressable(gid) == TaskOf(gid) # 0 /\ tasks[TaskOf(gid)] # "deleted"

Call(op, gid, text, ok) == [op |-> op, task_gid |-> gid, body |-> text, ok |-> ok]

\* variant: the status is not looked at
post_no_raise(ok, cont) == cont

\* `if res.status_code > 299: raise Exception(res.text)`: where the script goes
\* after a call that answered ok / not ok
post_to_asana(ok, cont) == IF ok THEN cont ELSE "failed"

post_to_github(ok, cont) == IF ok THEN cont ELSE "failed"

\* variant: "closed" without the test of pr_data["merged"]
dispatch_ignores_merged(a, m, info) ==
    IF a = "edited" THEN (IF info = NoneVal THEN "crashed_type" ELSE "update_cm_task_name")
    ELSE IF a = "closed" THEN "remove_cm_from_pr_description"
    ELSE "done"

\* lines 193-203, up to the first remote call: cm_task_info['task_gid'] on None
\* is a TypeError
dispatch(a, m, info) ==
    IF a = "edited"
    THEN (IF info = NoneVal THEN "crashed_type" ELSE "update_cm_task_name")
    ELSE IF a = "closed"
    THEN IF m THEN (IF info = NoneVal THEN "crashed_type" ELSE "add_merge_comment")
         ELSE "remove_cm_from_pr_description"
    ELSE "done"

\* variant: a task is created on every run
needs_task_always(text) == TRUE

\* line 185
needs_task(text) == ~LabelIn(text)

Stopped == pc \in { "idle", "done", "failed", "crashed_value", "crashed_type" }

\* the bodies a pull request may carry when the first event arrives
InitBodies ==
    { NullBody,
      EmptyStr,
      << TEXT_LINE >>,
      << TEXT_LINE, EMPTY_LINE >>,
      << DETAILS_LINE, TEXT_LINE, END_LINE >>,
      << LABEL_IN_TEXT_LINE >>,
      << LABEL_LINE >>,
      << LABEL_LINE, TEXT_LINE >>,
      << DETAILS_LINE, LABEL_LINE, HREF_NOQUOTE_LINE, END_LINE >>,
      \* a block naming a task Asana does not know
      << TEXT_LINE, LABEL_LINE, AnchorLine(PermalinkUrl(MaxRuns + 1)), EMPTY_LINE >> }

Init ==
    /\ body \in InitBodies
    /\ init_body = body
    /\ tasks = [n \in 1..MaxRuns |-> "none"]
    /\ ntasks = 0
    /\ pc = "idle"
    /\ action = "opened"
    /\ merged = FALSE
    /\ pr_body = EmptyStr
    /\ cm_task_info = NoneVal
    /\ calls = << >>
    /\ created = 0
    /\ runs = 0
    /\ any_failed = FALSE
    /\ c_text = EmptyStr /\ c_prev = EmptyStr /\ c_url = << >>
    /\ c_ref = NoneVal /\ c_ops = << >>

\* lines 174-191: one event delivery starts the script; it runs to its first
\* remote call
StartRun(a, m) ==
    /\ Stopped
    /\ runs < MaxRuns
    /\ runs' = runs + 1
    /\ action' = a
    /\ merged' = m
    /\ pr_body' = IF body = NullBody THEN EmptyStr ELSE body
    /\ calls' = << >>
    /\ created' = 0
    /\ IF needs_task(pr_body')
       THEN /\ cm_task_info' = NoneVal
            /\ pc' = "create_cm_task"
       ELSE LET info == parse_cm_info_from_pr_body(pr_body') IN
            /\ cm_task_info' = info
            /\ pc' = IF info = ValueError THEN "crashed_value" ELSE dispatch(a, m, info)
    /\ UNCHANGED << body, tasks, ntasks, init_body, any_failed >>
    /\ UNCHANGED codec_vars

\* line 64: POST /tasks
CreateTask ==
    /\ pc = "create_cm_task"
    /\ \E ok \in BOOLEAN :
        /\ calls' = Append(calls, Call("create_task", << >>, << >>, ok))
        /\ pc' = post_to_asana(ok, "add_comment_to_cm_task")
        /\ any_failed' = (any_failed \/ ~ok)
        /\ IF ok
           THEN /\ ntasks' = ntasks + 1
                /\ tasks' = [tasks EXCEPT ![ntasks + 1] = "open"]
                /\ created' = ntasks + 1
                /\ cm_task_info' = [kind |-> "ref", task_gid |-> Gid(ntasks + 1),
                                    task_url |-> PermalinkUrl(ntasks + 1)]
           ELSE UNCHANGED << ntasks, tasks, created, cm_task_info >>
    /\ UNCHANGED << body, action, merged, pr_body, runs, init_body >>
    /\ UNCHANGED codec_vars

\* line 75: POST /tasks/{gid}/stories, "PR created by ..."
CreateComment ==
    /\ pc = "add_comment_to_cm_task"
    /\ \E ok \in BOOLEAN :
        /\ ok => Addressable(cm_task_info.task_gid)
        /\ calls' = Append(calls, Call("comment_created", cm_task_info.task_gid, << >>, ok))
        /\ pc' = post_to_asana(ok, "add_task_to_section")
        /\ any_failed' = (any_failed \/ ~ok)
    /\ UNCHANGED << body, tasks, ntasks, action, merged, pr_body, cm_task_info,
                    created, runs, init_body >>
    /\ UNCHANGED codec_vars

\* line 79: POST /sections/{SECTION_GID}/addTask
AddToSection ==
    /\ pc = "add_task_to_section"
    /\ \E ok \in BOOLEAN :
        /\ ok => Addressable(cm_task_info.task_gid)
        /\ calls' = Append(calls, Call("add_to_section", cm_task_info.task_gid, << >>, ok))
        /\ pc' = post_to_asana(ok, "update_pr_description")
        /\ any_failed' = (any_failed \/ ~ok)
    /\ UNCHANGED << body, tasks, ntasks, action, merged, pr_body, cm_task_info,
                    created, runs, init_body >>
    /\ UNCHANGED codec_vars

\* lines 119-123, then the dispatch of lines 191-203
UpdatePrDescription ==
    /\ pc = "update_pr_description"
    /\ \E ok \in BOOLEAN :
        LET text == add_cm_details_to_pr_body(pr_body, cm_task_info.task_url) IN
        /\ calls' = Append(calls, Call("update_pr", << >>, text, ok))
        /\ pc' = post_to_github(ok, dispatch(action, merged, cm_task_info))
        /\ any_failed' = (any_failed \/ ~ok)
        /\ body' = IF ok THEN text ELSE body
    /\ UNCHANGED << tasks, ntasks, action, merged, pr_body, cm_task_info,
                    created, runs, init_body >>
    /\ UNCHANGED codec_vars

\* lines 142-146: PUT /tasks/{gid}, the new name
UpdateTaskName ==
    /\ pc = "update_cm_task_name"
    /\ \E ok \in BOOLEAN :
        /\ ok => Addressable(cm_task_info.task_gid)
        /\ calls' = Append(calls, Call("rename", cm_task_info.task_gid, << >>, ok))
        /\ pc' = post_to_asana(ok, "done")
        /\ any_failed' = (any_failed \/ ~ok)
    /\ UNCHANGED << body, tasks, ntasks, action, merged, pr_body, cm_task_info,
                    created, runs, init_body >>
    /\ UNCHANGED codec_vars

\* lines 198-199: POST /tasks/{gid}/stories, "PR merged by ..."
AddMergeComment ==
    /\ pc = "add_merge_comment"
    /\ \E ok \in BOOLEAN :
        /\ ok => Addressable(cm_task_info.task_gid)
        /\ calls' = Append(calls, Call("comment_merged", cm_task_info.task_gid, << >>, ok))
        /\ pc' = post_to_asana(ok, "complete_cm_task")
        /\ any_failed' = (any_failed \/ ~ok)
    /\ UNCHANGED << body, tasks, ntasks, action, merged, pr_body, cm_task_info,
                    created, runs, init_body >>
    /\ UNCHANGED codec_vars

\* lines 149-151: PUT /tasks/{gid}, completed: true
CompleteTask ==
    /\ pc = "complete_cm_task"
    /\ \E ok \in BOOLEAN :
        /\ ok => Addressable(cm_task_info.task_gid)
        /\ calls' = Append(calls, Call("complete", cm_task_info.task_gid, << >>, ok))
        /\ pc' = post_to_asana(ok, "done")
        /\ any_failed' = (any_failed \/ ~ok)
        /\ tasks' = IF ok
                    THEN [tasks EXCEPT ![TaskOf(cm_task_info.task_gid)] = "completed"]
                    ELSE tasks
    /\ UNCHANGED << body, ntasks, action, merged, pr_body, cm_task_info,
                    created, runs, init_body >>
    /\ UNCHANGED codec_vars

\* variant: the task is not deleted
after_remove_skips_delete(info) == "done"

\* where the script goes after remove_cm_from_pr_description returned:
\* delete_cm_task subscripts cm_task_info
after_remove(info) == IF info = NoneVal THEN "crashed_type" ELSE "delete_cm_task"

\* lines 154-156: the body sent is computed from pr_data["body"], the body the
\* run read, not from the body update_pr_description has just written
RemoveFromPrDescription ==
    /\ pc = "remove_cm_from_pr_description"
    /\ \E ok \in BOOLEAN :
        LET text == remove_cm_details_from_pr_body(pr_body) IN
        /\ calls' = Append(calls, Call("update_pr", << >>, text, ok))
        /\ pc' = post_to_github(ok, after_remove(cm_task_info))
        /\ any_failed' = (any_failed \/ ~ok)
        /\ body' = IF ok THEN text ELSE body
    /\ UNCHANGED << tasks, ntasks, action, merged, pr_body, cm_task_info,
                    created, runs, init_body >>
    /\ UNCHANGED codec_vars

\* lines 30-31: DELETE /tasks/{gid}
DeleteTask ==
    /\ pc = "delete_cm_task"
    /\ \E ok \in BOOLEAN :
        /\ ok => Addressable(cm_task_info.task_gid)
        /\ calls' = Append(calls, Call("delete", cm_task_info.task_gid, << >>, ok))
        /\ pc' = post_to_asana(ok, "done")
        /\ any_failed' = (any_failed \/ ~ok)
        /\ tasks' = IF ok
                    THEN [tasks EXCEPT ![TaskOf(cm_task_info.task_gid)] = "deleted"]
                    ELSE tasks
    /\ UNCHANGED << body, ntasks, action, merged, pr_body, cm_task_info,
                    created, runs, init_body >>
    /\ UNCHANGED codec_vars

Run == \E a \in Actions : \E m \in BOOLEAN : StartRun(a, m)

Next ==
    \/ Run
    \/ CreateTask
    \/ CreateComment
    \/ AddToSection
    \/ UpdatePrDescription
    \/ UpdateTaskName
    \/ AddMergeComment
    \/ CompleteTask
    \/ RemoveFromPrDescription
    \/ DeleteTask

Spec == Init /\ [][Next]_vars

\* ------------------------------------------------------ the codec's harness
\* The three pure functions applied to texts drawn from a bounded set.
CodecLines ==
    { EMPTY_LINE, TEXT_LINE, DETAILS_LINE, LABEL_LINE, END_LINE,
      LABEL_IN_TEXT_LINE, AnchorLine(PermalinkUrl(2)) }

CodecTexts == UNION { [1..k -> CodecLines] : k \in 1..MaxPieces }

\* task URLs handed to embed: a permalink, the empty URL, a URL holding a quote
CodecUrls == { PermalinkUrl(1), << >>, << "u", Slash, Quote, "1" >> }

InitCodec ==
    /\ c_text \in CodecTexts
    /\ c_prev = c_text
    /\ c_url = << >>
    /\ c_ref = NoneVal
    /\ c_ops = << >>
    /\ body = EmptyStr
    /\ init_body = EmptyStr
    /\ tasks = [n \in 1..MaxRuns |-> "none"]
    /\ ntasks = 0
    /\ pc = "idle"
    /\ action = "opened"
    /\ merged = FALSE
    /\ pr_body = EmptyStr
    /\ cm_task_info = NoneVal
    /\ calls = << >>
    /\ created = 0
    /\ runs = 0
    /\ any_failed = FALSE

CodecStrip ==
    /\ Len(c_ops) < MaxCodecOps
    /\ c_prev' = c_text
    /\ c_text' = remove_cm_details_from_pr_body(c_text)
    /\ c_ops' = Append(c_ops, "strip")
    /\ UNCHANGED << c_url, c_ref >>
    /\ UNCHANGED run_vars

CodecEmbed ==
    /\ Len(c_ops) < MaxCodecOps
    /\ \E u \in CodecUrls :
        /\ c_prev' = c_text
        /\ c_text' = add_cm_details_to_pr_body(c_text, u)
        /\ c_url' = u
    /\ c_ops' = Append(c_ops, "embed")
    /\ UNCHANGED c_ref
    /\ UNCHANGED run_vars

CodecExtract ==
    /\ Len(c_ops) < MaxCodecOps
    /\ c_ref' = parse_cm_info_from_pr_body(c_text)
    /\ c_ops' = Append(c_ops, "extract")
    /\ UNCHANGED << c_text, c_prev, c_url >>
    /\ UNCHANGED run_vars

NextCodec == CodecStrip \/ CodecEmbed \/ CodecExtract

SpecCodec == InitCodec /\ [][NextCodec]_vars

\* the last two operations applied
LastOps(a, b) ==
    /\ Len(c_ops) >= 2
    /\ c_ops[Len(c_ops) - 1] = a
    /\ c_ops[Len(c_ops)] = b

HasLabelLine(text) ==
    \E i \in 1..Len(str_splitlines(text)) : str_splitlines(text)[i] = LABEL_LINE

\* ------------------------------------------------------------------ claims

\* C1: strip is idempotent: stripping the result of a strip gives that result
\* back, character for character.  (SpecCodec)
C1_StripIdempotent == LastOps("strip", "strip") => c_text = c_prev

\* C2 as stated: for any body and any task URL, extraction from the embedded
\* body returns a reference whose task_url is the URL embedded.  (SpecCodec)
C2_RoundTripAnyBody ==
    LastOps("embed", "extract") => (c_ref.kind = "ref" /\ c_ref.task_url = c_url)

\* C2 amended: the round trip holds for every body none of whose lines is the
\* label line and every URL holding no double quote; the task id recovered
\* is the URL's last path segment.  (SpecCodec)
C2_RoundTripNoLabelLine ==
    (/\ LastOps("embed", "extract")
     /\ ~HasLabelLine(c_prev)
     /\ \A j \in 1..Len(c_url) : c_url[j] # Quote)
    => (/\ c_ref.kind = "ref"
        /\ c_ref.task_url = c_url
        /\ c_ref.task_gid = LastPart(c_url))

C2_Witness ==
    /\ LastOps("embed", "extract")
    /\ ~HasLabelLine(c_prev)
    /\ LabelIn(c_prev)
    /\ \E i \in 1..Len(c_prev) : c_prev[i] = DETAILS_LINE
    /\ c_url = PermalinkUrl(1)
    /\ c_ref.kind = "ref"

\* the lines of a body with every annotation block deleted: a block runs from
\* a <details> line directly before a label line through the next </details>
RECURSIVE BlockDeleted(_, _, _)
BlockDeleted(lines, i, inside) ==
    IF i > Len(lines) THEN << >>
    ELSE IF inside
         THEN BlockDeleted(lines, i + 1, lines[i] # END_LINE)
    ELSE IF lines[i] = DETAILS_LINE /\ i < Len(lines) /\ lines[i + 1] = LABEL_LINE
         THEN BlockDeleted(lines, i + 1, TRUE)
    ELSE << lines[i] >> \o BlockDeleted(lines, i + 1, FALSE)

\* C3: strip removes exactly the annotation block: the lines of the result are
\* the lines of the body without the block, each other line once, in order,
\* none added.  (SpecCodec)
C3_StripRemovesExactlyBlock ==
    (Len(c_ops) >= 1 /\ c_ops[Len(c_ops)] = "strip")
    => str_splitlines(c_text) = BlockDeleted(str_splitlines(c_prev), 1, FALSE)

\* a line carrying an href link: href, then a quoted URL
HasHrefLink(line) ==
    \E h, q1, q2 \in 1..Len(line) :
        h < q1 /\ q1 < q2 /\ line[h] = Href /\ line[q1] = Quote /\ line[q2] = Quote

\* a label line directly followed by a link line
WellFormedBlockIn(text) ==
    \E i \in 1..(Len(str_splitlines(text)) - 1) :
        /\ str_splitlines(text)[i] = LABEL_LINE
        /\ HasHrefLink(str_splitlines(text)[i + 1])

\* C4: a run on a body from which no well-formed block can be extracted raises
\* nothing from extraction and creates the task before anything else.
C4_MalformedMeansAbsent ==
    (runs > 0 /\ ~WellFormedBlockIn(pr_body))
    => /\ pc \notin { "crashed_value", "crashed_type" }
       /\ \/ pc = "create_cm_task"
          \/ (Len(calls) > 0 /\ calls[1].op = "create_task")

\* the block as the f-string writes it after an empty body
FirstBody(lead, n) ==
    lead \o << DETAILS_LINE,
               LABEL_LINE,
               << "<a ", "href", "=", "\"" >> \o PermalinkUrl(n) \o << "\"", ">Asana task</a>" >>,
               END_LINE,
               EMPTY_LINE >>

FirstCreationDone ==
    pc = "done" /\ action = "opened" /\ pr_body = EmptyStr /\ created # 0

OneTaskCreated ==
    Cardinality({ i \in 1..Len(calls) : calls[i].op = "create_task" }) = 1

\* C5 as stated: first-time creation on an empty body persists one newline
\* followed by the four lines of the block.
C5_FirstBodyOneNewline ==
    FirstCreationDone => (OneTaskCreated /\ body = FirstBody(<< EMPTY_LINE >>, created))

\* C5 amended: first-time creation on an empty (or null) body creates exactly one
\* task and persists two newlines followed by the four lines of the block, each
\* ended by a newline.
C5_FirstBodyTwoNewlines ==
    FirstCreationDone
    => (OneTaskCreated /\ body = FirstBody(<< EMPTY_LINE, EMPTY_LINE >>, created))

C5_Witness == FirstCreationDone /\ init_body = NullBody /\ OneTaskCreated

\* C6: Completed and Deleted are terminal: no step moves a completed or deleted
\* task to another state, and no call addresses a deleted task.
C6_TerminalStates ==
    [][/\ \A n \in 1..MaxRuns :
            tasks[n] \in { "completed", "deleted" } => tasks'[n] = tasks[n]
       /\ (Len(calls') > Len(calls) /\ TaskOf(calls'[Len(calls')].task_gid) # 0)
            => tasks[TaskOf(calls'[Len(calls')].task_gid)] # "deleted"]_vars

CountLabelLines(text) ==
    IF text = NullBody THEN 0
    ELSE Cardinality({ i \in 1..Len(str_splitlines(text)) :
                         str_splitlines(text)[i] = LABEL_LINE })

\* C7: from a body without the label, every body written to the repository
\* host holds at most one label line, and embed is never applied to a body
\* that carries the label.
C7_AtMostOneBlock ==
    ~LabelIn(init_body)
    => /\ CountLabelLines(body) <= 1
       /\ \A i \in 1..Len(calls) :
            calls[i].op = "update_pr" => CountLabelLines(calls[i].body) <= 1
       /\ pc = "update_pr_description" => ~LabelIn(pr_body)

C7_Witness ==
    /\ ~LabelIn(init_body)
    /\ ntasks = 2
    /\ created = 2
    /\ pc = "done"
    /\ CountLabelLines(body) = 1

\* the calls the claim lists for a body that carries the block
ExpectedCalls(gid) ==
    IF action = "edited" THEN << Call("rename", gid, << >>, TRUE) >>
    ELSE IF action = "closed" /\ merged
    THEN << Call("comment_merged", gid, << >>, TRUE), Call("complete", gid, << >>, TRUE) >>
    ELSE IF action = "closed"
    THEN << Call("update_pr", << >>, remove_cm_details_from_pr_body(pr_body), TRUE),
            Call("delete", gid, << >>, TRUE) >>
    ELSE << >>

\* C8: a run on a body that carries the block issues exactly the calls
\* (action, merged) determine, in that order, each task call on the id
\* extracted from the body, and creates no task: at every point its calls are
\* the first calls of that list (only the last may have failed), and a
\* completed run has issued the whole list.
C8_CallsByAction ==
    (runs > 0 /\ LabelIn(pr_body) /\ cm_task_info.kind = "ref")
    => LET expected == ExpectedCalls(parse_cm_info_from_pr_body(pr_body).task_gid) IN
       /\ Len(calls) <= Len(expected)
       /\ \A i \in 1..Len(calls) :
            /\ calls[i] = [expected[i] EXCEPT !.ok = calls[i].ok]
            /\ ~calls[i].ok => i = Len(calls)
       /\ pc = "done" => calls = expected
       /\ created = 0

C8_Witness ==
    /\ pc = "done" /\ LabelIn(pr_body) /\ cm_task_info.kind = "ref"
    /\ action = "closed" /\ ~merged
    /\ Len(calls) = 2
    /\ tasks[TaskOf(cm_task_info.task_gid)] = "deleted"

\* C9: a failed remote call is the run's last call: nothing follows it and it
\* is not repeated; a task created before a failed comment, section-add or body
\* update stays open and the body stays as it was, without the block.
C9_FailureIsFatal ==
    /\ \A i \in 1..Len(calls) : ~calls[i].ok => (i = Len(calls) /\ pc = "failed")
    /\ (pc = "failed" /\ created # 0 /\ Len(calls) <= 4)
       => /\ tasks[created] = "open"
          /\ ~LabelIn(body)
          /\ pr_body = (IF body = NullBody THEN EmptyStr ELSE body)

C9_Witness ==
    /\ pc = "failed" /\ created # 0
    /\ Len(calls) = 4 /\ calls[4].op = "update_pr" /\ ~calls[4].ok
    /\ tasks[created] = "open"

\* C10: while every remote call succeeds, from a body without the label, at
\* most one task is open; a task is created only when every earlier one was
\* deleted; the run that creates and deletes ends with the new task deleted and
\* no label in the persisted body.
C10_OneLiveTask ==
    (~LabelIn(init_body) /\ ~any_failed)
    => /\ Cardinality({ n \in 1..MaxRuns : tasks[n] = "open" }) <= 1
       /\ \A n \in 1..MaxRuns : (created # 0 /\ n < created) => tasks[n] = "deleted"
       /\ (pc = "done" /\ created # 0 /\ action = "closed" /\ ~merged)
          => (tasks[created] = "deleted" /\ ~LabelIn(body))

C10_Witness ==
    /\ ~LabelIn(init_body) /\ ~any_failed
    /\ pc = "done" /\ created = 2 /\ action = "closed" /\ ~merged
    /\ tasks[2] = "deleted"

====
